---- MODULE Spec2Model ----
(***************************************************************************)
(* Model of the TRACE shop-agent API server (src/unnamed/part_000): the    *)
(* /api/recommend chain and the pure helpers it is built from.             *)
(*                                                                         *)
(* Conventions.                                                            *)
(*  - A JS string is a sequence of tokens.  " " is a blank; "a", "b", "c"  *)
(*    are words; "$0", "$20", ... are currency amounts as the regular      *)
(*    expression of parsePriceFromText matches them.                       *)
(*  - A JS value that may be null/undefined is a sequence of length <= 1:  *)
(*    <<>> is null, <<v>> is the value v.                                  *)
(*  - Money is counted in whole dollars.                                   *)
(***************************************************************************)
EXTENDS Integers, Sequences, FiniteSets, TLC

VARIABLES
    \* the process and one /api/recommend request
    hasKey,             \* process.env.GROK_API_KEY || process.env.XAI_API_KEY is set
    req,                \* req.body: prompt, fundsCrypto, forecastHorizon
    pc,                 \* where the request handler stands
    net,                \* the external call the handler awaits, with its reply
    forecastedItems,    \* forecastedItems (parsedItems with their forecast)
    grokQueriesResult,  \* what callGrokForSearchQueries returned
    searchQueries,      \* searchQueries
    qi,                 \* number of completed iterations of the search loop
    calls,              \* the callWebShopSearch calls made: query and answer, in order
    allResults,         \* allResults
    usedQueries,        \* usedQueries
    unfoundQueries,     \* unfoundQueries
    rawUnfoundSearches, \* the Promise.all slots: None while a search is pending
    res,                \* the response sent, None before
    \* stand-alone runs of the pure helpers
    bui,                \* frame of buildUnfoundItems: its arguments and loop locals
    msr,                \* frame of mergeSearchResults: its argument and its outcome
    holt,               \* one product of /api/dashboard/forecast: series, forecast, reorder
    fcd,                \* frame of forecastDemand: its arguments and its result
    sel,                \* frame of recommendFromWebShop without ranking: pool, funds, result
    ui                  \* the App component of the frontend: its state and pending fetches

handlerVars == <<hasKey, req, pc, net, forecastedItems, grokQueriesResult, searchQueries,
                 qi, calls, allResults, usedQueries, unfoundQueries, rawUnfoundSearches,
                 res>>

pureVars == <<bui, msr, holt, fcd, sel, ui>>

vars == <<handlerVars, pureVars>>

-----------------------------------------------------------------------------
(* Bounds of the model *)

MaxUnfound == 2         \* longest queries list given to buildUnfoundItems
MaxPool == 3            \* longest combined pool given to mergeSearchResults
MaxQueries == 2         \* longest query list the query-generation capability returns

-----------------------------------------------------------------------------
(* Generic helpers *)

None == <<>>
Some(v) == <<v>>

Min(a, b) == IF a < b THEN a ELSE b
Max(a, b) == IF a > b THEN a ELSE b

SeqsUpTo(S, n) == UNION {[1..k -> S] : k \in 0..n}

RECURSIVE SumSeq(_)
SumSeq(s) == IF s = <<>> THEN 0 ELSE Head(s) + SumSeq(Tail(s))

-----------------------------------------------------------------------------
(* Strings *)

PriceValue ==
    [t \in {"$0", "$10", "$20", "$30", "$60"} |->
        CASE t = "$0" -> 0 [] t = "$10" -> 10 [] t = "$20" -> 20
          [] t = "$30" -> 30 [] t = "$60" -> 60]

PriceTokens == DOMAIN PriceValue

\* String.prototype.trim
RECURSIVE TrimLeft(_)
TrimLeft(s) == IF s # <<>> /\ Head(s) = " " THEN TrimLeft(Tail(s)) ELSE s

RECURSIVE TrimRight(_)
TrimRight(s) ==
    IF s # <<>> /\ s[Len(s)] = " " THEN TrimRight(SubSeq(s, 1, Len(s) - 1)) ELSE s

Trim(s) == TrimRight(TrimLeft(s))

\* text.match(/\$[\d,]+(?:\.\d{2})?/): the first currency amount of the text
FirstPriceIndex(text) ==
    LET hits == {i \in 1..Len(text) : text[i] \in PriceTokens}
    IN  IF hits = {} THEN 0 ELSE CHOOSE i \in hits : \A j \in hits : i <= j

parsePriceFromText(text) ==
    IF text = <<>> THEN None
    ELSE LET m == FirstPriceIndex(text)
         IN  IF m = 0 THEN None
             ELSE LET n == PriceValue[text[m]]
                  IN  IF n > 0 THEN Some(n) ELSE None

\* a || b on values that may be null
OrElse(a, b) == IF a # None THEN a ELSE b

-----------------------------------------------------------------------------
(* Search Dispatcher: mergeSearchResults *)

\* One entry of a catalog reply's results.  asin "" is an entry without asin;
\* price None is an entry without price; nul marks a JSON null in the array.
Entry(asin, price) == [asin |-> asin, price |-> price, nul |-> FALSE]
NullEntry == [asin |-> "", price |-> None, nul |-> TRUE]

\* for (const r of results) if (r.asin && ...): reading r.asin of null throws
MergeThrows(results) == \E i \in 1..Len(results) : results[i].nul

\* MergeLoop with byAsin.set(r.asin, r) done for every entry that has an asin
RECURSIVE MergeLoopLastWins(_, _)
MergeLoopLastWins(results, n) ==
    IF n = 0 THEN <<>>
    ELSE LET byAsin == MergeLoopLastWins(results, n - 1)
             r      == results[n]
         IN  IF r.asin = "" THEN byAsin
             ELSE IF \E j \in 1..Len(byAsin) : byAsin[j].asin = r.asin
                  THEN [j \in 1..Len(byAsin) |->
                           IF byAsin[j].asin = r.asin THEN r ELSE byAsin[j]]
                  ELSE Append(byAsin, r)

\* The values of the Map byAsin, in insertion order, after the first n
\* elements of results have been visited.
RECURSIVE MergeLoop(_, _)
MergeLoop(results, n) ==
    IF n = 0 THEN <<>>
    ELSE LET byAsin == MergeLoop(results, n - 1)
             r      == results[n]
         IN  IF r.asin # "" /\ ~(\E j \in 1..Len(byAsin) : byAsin[j].asin = r.asin)
             THEN Append(byAsin, r)
             ELSE byAsin

\* Array.from(byAsin.values())
mergeSearchResults(results) == MergeLoop(results, Len(results))

-----------------------------------------------------------------------------
(* Unfound Resolver: buildUnfoundItems *)

\* One result of runExternalSearch; an absent price field is the empty string.
ExtResult(title, link, snippet, price) ==
    [title |-> title, link |-> link, snippet |-> snippet, price |-> price]

\* `${EXTERNAL_SEARCH_BASE}=${encodeURIComponent((query || '').trim())}`
externalSearchLink(query) == <<"search?q=">> \o Trim(query)

\* let remaining = Number.isFinite(b) && b > 0 ? b : 0
InitialRemaining(budgetForQuantity) ==
    IF budgetForQuantity > 0 THEN budgetForQuantity ELSE 0

\* unit_price ? Math.min(99, Math.max(1, Math.floor(remaining / unit_price))) : 1
UnfoundQuantity(remaining, unit_price) ==
    IF unit_price # None
    THEN Min(99, Max(1, remaining \div unit_price[1]))
    ELSE 1

\* if (unit_price && quantity > 0) remaining -= quantity * unit_price
UnfoundDebit(remaining, unit_price, quantity) ==
    IF unit_price # None /\ quantity > 0
    THEN remaining - quantity * unit_price[1]
    ELSE remaining

\* The body of the for loop of buildUnfoundItems for one query: the item it
\* pushes and the value of `remaining` it leaves.
UnfoundIteration(remaining, query, search_results) ==
    LET first        == IF search_results = <<>> THEN None ELSE Some(search_results[1])
        firstLink    == IF first = None THEN <<>> ELSE first[1].link
        firstTitle   == IF first = None THEN <<>> ELSE first[1].title
        firstPrice   == IF first = None THEN <<>> ELSE first[1].price
        link         == IF firstLink # <<>> THEN firstLink ELSE externalSearchLink(query)
        product_name == IF firstTitle # <<>> THEN firstTitle ELSE query
        snippet      == IF first = None THEN <<>> ELSE first[1].snippet
        unit_price   == OrElse(OrElse(parsePriceFromText(firstPrice),
                                      parsePriceFromText(snippet)),
                               parsePriceFromText(product_name))
        quantity     == UnfoundQuantity(remaining, unit_price)
        line_total   == IF unit_price # None THEN Some(quantity * unit_price[1]) ELSE None
    IN  [item |-> [query |-> query, product_name |-> product_name, link |-> link,
                   unit_price |-> unit_price, quantity |-> quantity,
                   line_total |-> line_total],
         remaining |-> UnfoundDebit(remaining, unit_price, quantity)]

\* searches[i] || []
BatchAt(searches, i) == IF i \in DOMAIN searches THEN searches[i] ELSE <<>>

\* The loop state of buildUnfoundItems after its first i iterations.
RECURSIVE UnfoundLoop(_, _, _, _)
UnfoundLoop(queries, searches, budgetForQuantity, i) ==
    IF i = 0
    THEN [items |-> <<>>, remaining |-> InitialRemaining(budgetForQuantity)]
    ELSE LET before == UnfoundLoop(queries, searches, budgetForQuantity, i - 1)
             step   == UnfoundIteration(before.remaining, queries[i],
                                        BatchAt(searches, i))
         IN  [items |-> Append(before.items, step.item), remaining |-> step.remaining]

\* buildUnfoundItems pushing only the items that have a price
buildUnfoundItemsPricedOnly(queries, searches, budgetForQuantity) ==
    SelectSeq(UnfoundLoop(queries, searches, budgetForQuantity, Len(queries)).items,
              LAMBDA it : it.unit_price # None)

buildUnfoundItems(queries, searches, budgetForQuantity) ==
    UnfoundLoop(queries, searches, budgetForQuantity, Len(queries)).items

-----------------------------------------------------------------------------
(* Forecaster: holtForecast.  Numbers that need not be whole are exact
   fractions num/den with den > 0, in lowest terms. *)

Abs(n) == IF n < 0 THEN -n ELSE n

RECURSIVE GCD(_, _)
GCD(a, b) == IF b = 0 THEN a ELSE GCD(b, a % b)

Rat(n, d) == LET g == GCD(Abs(n), d) IN [num |-> n \div g, den |-> d \div g]

RInt(n) == [num |-> n, den |-> 1]

RAdd(p, q) ==
    LET g == GCD(p.den, q.den)
        l == (p.den \div g) * q.den
    IN  Rat(p.num * (l \div p.den) + q.num * (l \div q.den), l)

RSub(p, q) == RAdd(p, [num |-> -q.num, den |-> q.den])

RMul(p, q) == Rat(p.num * q.num, p.den * q.den)

\* Math.round: the nearest integer, halves towards +Infinity
RRound(p) == (2 * p.num + p.den) \div (2 * p.den)

\* HoltStep with the trend updated from the level of the previous step
HoltStepStaleLevel(L, b, x, alpha, beta) ==
    LET LNew == RAdd(RMul(alpha, RInt(x)), RMul(RSub(RInt(1), alpha), RAdd(L, b)))
    IN  [L |-> LNew,
         b |-> RAdd(RMul(beta, RSub(L, L)), RMul(RSub(RInt(1), beta), b))]

\* the body of the smoothing loop for the observation x = series[t]:
\*   LPrev = L; L = alpha * x + (1 - alpha) * (L + b);
\*   b = beta * (L - LPrev) + (1 - beta) * b
HoltStep(L, b, x, alpha, beta) ==
    LET LNew == RAdd(RMul(alpha, RInt(x)), RMul(RSub(RInt(1), alpha), RAdd(L, b)))
    IN  [L |-> LNew,
         b |-> RAdd(RMul(beta, RSub(LNew, L)), RMul(RSub(RInt(1), beta), b))]

\* L and b after the iterations t = 1 .. n of the loop (series is 0-based in
\* the code, 1-based here)
RECURSIVE HoltLoop(_, _, _, _)
HoltLoop(series, alpha, beta, n) ==
    IF n = 0
    THEN [L |-> RInt(series[1]),
          b |-> IF Len(series) > 1 THEN RInt(series[2] - series[1]) ELSE RInt(0)]
    ELSE LET before == HoltLoop(series, alpha, beta, n - 1)
         IN  HoltStep(before.L, before.b, series[n + 1], alpha, beta)

\* ForecastValue without the clamp at 0
ForecastValueUnclamped(L, b, k) == RRound(RAdd(L, RMul(RInt(k), b)))

\* Math.max(0, Math.round(L + k * b))
ForecastValue(L, b, k) == Max(0, RRound(RAdd(L, RMul(RInt(k), b))))

\* HoltEmpty answering a flat forecast of zeros
HoltEmptyZeros(horizon) ==
    [forecast |-> [k \in 1..horizon |-> 0], level |-> RInt(0), trend |-> RInt(0)]

\* if (!series.length) return { forecast: [], level: 0, trend: 0 }
HoltEmpty(horizon) == [forecast |-> <<>>, level |-> RInt(0), trend |-> RInt(0)]

holtForecast(series, alpha, beta, horizon) ==
    IF series = <<>>
    THEN HoltEmpty(horizon)
    ELSE LET end == HoltLoop(series, alpha, beta, Len(series) - 1)
         IN  [forecast |-> [k \in 1..horizon |-> ForecastValue(end.L, end.b, k)],
              level |-> end.L, trend |-> end.b]

(* GET /api/dashboard/forecast, for one product *)

\* Math.min(90, Math.max(7, parseInt(req.query.horizon, 10) || 30))
DashboardHorizon(requested) == Min(90, Max(7, IF requested = 0 THEN 30 ELSE requested))

\* forecast.findIndex((f) => f <= reorderPoint), 0-based; None for -1
FindIndexAtOrBelow(forecast, reorderPoint) ==
    LET hits == {k \in 1..Len(forecast) : forecast[k] <= reorderPoint}
    IN  IF hits = {} THEN None
        ELSE Some((CHOOSE k \in hits : \A j \in hits : k <= j) - 1)

\* DaysUntilReorder without the test of the trend
DaysUntilReorderAnyTrend(forecast, trend, reorderPoint) ==
    IF reorderPoint > 0
    THEN LET idx == FindIndexAtOrBelow(forecast, reorderPoint)
         IN  IF idx # None THEN Some(idx[1] + 1) ELSE None
    ELSE None

\* let daysUntilReorder = null;
\* if (reorderPoint > 0 && trend < 0) { idx = ...; daysUntilReorder = idx >= 0 ? idx + 1 : null }
DaysUntilReorder(forecast, trend, reorderPoint) ==
    IF reorderPoint > 0 /\ trend.num < 0
    THEN LET idx == FindIndexAtOrBelow(forecast, reorderPoint)
         IN  IF idx # None THEN Some(idx[1] + 1) ELSE None
    ELSE None

-----------------------------------------------------------------------------
(* Demand Estimator: forecastDemand.  daily_usage is the fraction num/den. *)

CeilDiv(a, b) == (a + b - 1) \div b

Usage(num, den) == [num |-> num, den |-> den]

\* item.daily_usage * horizonDays is a product of doubles (IEEE 754 binary64,
\* round to nearest).  Of the products the model enumerates one is not the
\* exact product and lies just above an integer: 1.1 * 50 = 55.00000000000001.
\* baseDemand * 1.20 and baseDemand * (1.20 - 1) are the exact value or lie
\* below it for each of them (1.20 - 1 is 0.19999999999999996), which Math.ceil
\* takes to the same integer as the exact value.
ProductAboveInteger(daily_usage, horizonDays) ==
    daily_usage = Usage(11, 10) /\ horizonDays = 50

\* Math.ceil(baseDemand)
CeilBaseDemand(daily_usage, horizonDays) ==
    CeilDiv(daily_usage.num * horizonDays, daily_usage.den)
        + (IF ProductAboveInteger(daily_usage, horizonDays) THEN 1 ELSE 0)

\* one element of parsedItems.map(...) in forecastDemand; 1.20 is 12/10
ForecastItem(item, horizonDays) ==
    LET n == item.daily_usage.num * horizonDays
        d == item.daily_usage.den
    IN  [name |-> item.name, daily_usage |-> item.daily_usage,
         horizon_days |-> horizonDays,
         base_demand |-> CeilBaseDemand(item.daily_usage, horizonDays),
         safety_stock |-> CeilDiv(n * 2, d * 10),
         forecasted_units |-> CeilDiv(n * 12, d * 10)]

forecastDemand(parsedItems, horizonDays) ==
    [k \in 1..Len(parsedItems) |-> ForecastItem(parsedItems[k], horizonDays)]

-----------------------------------------------------------------------------
(* Capabilities behind the API key *)

\* parsed.items.filter(i => i.name && i.daily_usage > 0)
KeepParsedItem(i) == i.name # <<>> /\ i.daily_usage.num > 0

\* callGrokParseItems, given the reply of the chat completion
callGrokParseItems(reply) ==
    IF reply.kind # "json"
    THEN [ok |-> FALSE, items |-> <<>>]
    ELSE [ok |-> TRUE, items |-> SelectSeq(reply.items, KeepParsedItem)]

NonBlank(q) == q # <<>>

\* callGrokForSearchQueries with the .filter(Boolean) left out
callGrokForSearchQueriesNoFilter(reply) ==
    IF reply.kind # "json"
    THEN [ok |-> FALSE, search_queries |-> <<>>]
    ELSE LET queries ==
                 CASE reply.shape = "array"   -> reply.value
                   [] reply.shape = "scalar"  ->
                        IF reply.value[1] # <<>> THEN reply.value ELSE <<>>
                   [] reply.shape = "missing" -> <<>>
         IN  [ok |-> TRUE, search_queries |-> [k \in 1..Len(queries) |-> Trim(queries[k])]]

\* callGrokForSearchQueries, given the reply of the chat completion:
\*   queries = Array.isArray(sq) ? sq : (sq ? [sq] : [])
\*   search_queries = queries.map((q) => String(q).trim()).filter(Boolean)
callGrokForSearchQueries(reply) ==
    IF reply.kind # "json"
    THEN [ok |-> FALSE, search_queries |-> <<>>]
    ELSE LET queries ==
                 CASE reply.shape = "array"   -> reply.value
                   [] reply.shape = "scalar"  ->
                        IF reply.value[1] # <<>> THEN reply.value ELSE <<>>
                   [] reply.shape = "missing" -> <<>>
             trimmed == [k \in 1..Len(queries) |-> Trim(queries[k])]
         IN  [ok |-> TRUE, search_queries |-> SelectSeq(trimmed, NonBlank)]

\* One item of the ranking capability's answer.
RankItem(asin, quantity, unit_price) ==
    [asin |-> asin, quantity |-> quantity, unit_price |-> unit_price, nul |-> FALSE]
NullRankItem == [asin |-> "", quantity |-> 0, unit_price |-> 0, nul |-> TRUE]

\* callGrokOnSearchResults, given the reply of the chat completion.  Reading
\* parsed.items.length of a missing list, or i.asin of a null item, throws
\* inside the try block and ends in { ok: false }.
callGrokOnSearchResults(reply) ==
    IF reply.kind # "json" THEN [ok |-> FALSE, items |-> <<>>]
    ELSE IF reply.shape = "missing" THEN [ok |-> FALSE, items |-> <<>>]
    ELSE IF \E k \in 1..Len(reply.value) : reply.value[k].nul
         THEN [ok |-> FALSE, items |-> <<>>]
    ELSE [ok |-> TRUE, items |-> reply.value]

-----------------------------------------------------------------------------
(* Selector: recommendFromWebShop *)

\* parseFloat(fundsCrypto) || 200
ParseFunds(fundsCrypto) == IF fundsCrypto = 0 THEN 200 ELSE fundsCrypto

\* r.price ?? 0
PriceOrZero(r) == IF r.price = None THEN 0 ELSE r.price[1]

\* results.slice(0, 8).map(...).filter((i) => i.unit_price <= funds)
FallbackItems(results, funds) ==
    LET first8 == SubSeq(results, 1, Min(8, Len(results)))
        mapped == [k \in 1..Len(first8) |->
                      RankItem(first8[k].asin, 1, PriceOrZero(first8[k]))]
        Affordable(i) == i.unit_price <= funds
    IN  SelectSeq(mapped, Affordable)

\* recommendFromWebShop once the ranking step, if it ran, has answered:
\* grokResult is None when callGrokOnSearchResults was not called.
recommendFromWebShop(mergedResults, fundsCrypto, grokResult) ==
    IF grokResult # None /\ grokResult[1].ok /\ grokResult[1].items # <<>>
    THEN [items |-> grokResult[1].items, source |-> "grok"]
    ELSE [items |-> FallbackItems(mergedResults, ParseFunds(fundsCrypto)),
          source |-> "webshop"]

\* (result.items || []).reduce((sum, i) => sum + (i.quantity * i.unit_price), 0)
TotalCost(items) == SumSeq([k \in 1..Len(items) |-> items[k].quantity * items[k].unit_price])

-----------------------------------------------------------------------------
(* Web-search fallback: runExternalSearch *)

\* fallbackResult()
fallbackResult(q) ==
    << ExtResult(<<"Search for">> \o q, externalSearchLink(q), <<"Click to open">>, <<>>) >>

\* res.results.slice(0, maxResults).map(r => ({ title, link: r.url, snippet }))
DdgMapped(results) ==
    [k \in 1..Len(results) |->
        ExtResult(results[k].title, results[k].link, results[k].snippet, <<>>)]

\* runExternalSearch, given how the Amazon scrape and the DuckDuckGo search end
\* (ok = FALSE: it threw or timed out)
runExternalSearch(query, amazon, ddg) ==
    LET q == Trim(query)
    IN  IF q = <<>> THEN <<>>
        ELSE IF amazon.ok /\ amazon.results # <<>> THEN amazon.results
        ELSE IF ddg.ok /\ ddg.results # <<>> THEN DdgMapped(ddg.results)
        ELSE fallbackResult(q)

-----------------------------------------------------------------------------
(* Frames of the pure helpers while they do not run *)

BuiIdle == [unfoundQueries |-> <<>>, rawSearches |-> <<>>, budgetForQuantity |-> 0,
            i |-> 0, remaining |-> 0, items |-> <<>>, pc |-> "idle"]

MsrIdle == [allResults |-> <<>>, out |-> <<>>, pc |-> "idle"]

HoltIdle == [pc |-> "idle"]

FcdIdle == [pc |-> "idle"]

SelIdle == [pc |-> "idle"]

UiIdle == [pc |-> "idle"]

-----------------------------------------------------------------------------
(* The request handler app.post('/api/recommend') *)

Contains(text, word) == \E k \in 1..Len(text) : text[k] = word

\* isHolidaySellPrompt: every alternative of the test needs "holiday", "sell"
\* and "fast" to occur in the lower-cased prompt
isHolidaySellPrompt(prompt) ==
    Contains(prompt, "holiday") /\ Contains(prompt, "sell") /\ Contains(prompt, "fast")

HolidayUnitPrice == 499

\* the hardcoded holiday answer
HolidayResponse(fundsCrypto) ==
    LET fundsNum == ParseFunds(fundsCrypto)
        quantity == Min(99, Max(1, fundsNum \div HolidayUnitPrice))
    IN  [status |-> 200,
         items |-> <<RankItem("HOLIDAY-PS5", quantity, HolidayUnitPrice)>>,
         unfound_items |-> <<>>,
         totalCost |-> quantity * HolidayUnitPrice,
         budgetForQuantity |-> None,
         source |-> "grok"]

\* the catch block: res.status(500).json({ error: e.message })
ErrorResponse ==
    [status |-> 500, items |-> <<>>, unfound_items |-> <<>>, totalCost |-> 0,
     budgetForQuantity |-> None, source |-> "error"]

DefaultQuery == <<"product">>

\* Step 3 of the chain: the queries the Search Dispatcher is given
PlannedQueries(queriesResult, forecasted, prompt) ==
    IF queriesResult.ok /\ queriesResult.search_queries # <<>>
    THEN queriesResult.search_queries
    ELSE IF forecasted # <<>>
         THEN [k \in 1..Len(forecasted) |-> forecasted[k].name]
         ELSE << IF prompt # <<>> THEN prompt ELSE DefaultQuery >>

\* SearchClassify with the else branch (failed call) leaving the query out
SearchClassifyDropsFailed(q, data, pool, used, unfound) ==
    IF data.kind = "fail"
    THEN [allResults |-> pool, usedQueries |-> used, unfoundQueries |-> unfound]
    ELSE IF Len(data.results) > 0
         THEN [allResults |-> pool \o data.results, usedQueries |-> Append(used, q),
               unfoundQueries |-> unfound]
         ELSE [allResults |-> pool, usedQueries |-> Append(used, q),
               unfoundQueries |-> Append(unfound, q)]

\* The body of the search loop once callWebShopSearch(q) has returned data
\* (kind "fail": null): what it leaves in allResults, usedQueries, unfoundQueries.
SearchClassify(q, data, pool, used, unfound) ==
    IF data.kind = "fail"
    THEN [allResults |-> pool, usedQueries |-> used,
          unfoundQueries |-> Append(unfound, q)]
    ELSE IF Len(data.results) > 0
         THEN [allResults |-> pool \o data.results, usedQueries |-> Append(used, q),
               unfoundQueries |-> unfound]
         ELSE [allResults |-> pool, usedQueries |-> Append(used, q),
               unfoundQueries |-> Append(unfound, q)]

\* the Promise.all result once every search has completed
JoinedSearches(slots) == [k \in 1..Len(slots) |-> slots[k][1]]

\* the response when the catalog gave nothing; budgetForQuantity records the
\* third argument given to buildUnfoundItems
NoResultsResponse(unfound, slots, fundsCrypto) ==
    [status |-> 200, items |-> <<>>,
     unfound_items |-> buildUnfoundItems(unfound, JoinedSearches(slots),
                                         ParseFunds(fundsCrypto)),
     totalCost |-> 0, budgetForQuantity |-> Some(ParseFunds(fundsCrypto)),
     source |-> "webshop"]

\* the end of the chain, from the Selector's result to res.json
FinalResponse(result, unfound, slots, fundsCrypto) ==
    LET fundsNum        == ParseFunds(fundsCrypto)
        totalCost       == TotalCost(result.items)
        remainingBudget == Max(0, fundsNum - totalCost)
    IN  [status |-> 200, items |-> result.items,
         unfound_items |-> buildUnfoundItems(unfound, JoinedSearches(slots),
                                             remainingBudget),
         totalCost |-> totalCost, budgetForQuantity |-> Some(remainingBudget),
         source |-> result.source]

(* What the environment may send and answer *)

Url == <<"u">>

PromptSet == { <<>>, <<" ">>, <<"a">>, <<"holiday", "sell", "fast">> }
FundsSet == {0, 50, 100}
HorizonSet == {30, 400}

ItemA == [name |-> <<"a">>, daily_usage |-> Usage(2, 1)]
ItemB == [name |-> <<" ", "b">>, daily_usage |-> Usage(1, 2)]
ItemNoName == [name |-> <<>>, daily_usage |-> Usage(1, 1)]
ItemNoUsage == [name |-> <<"b">>, daily_usage |-> Usage(0, 1)]

\* kind "hang": the fetch never settles (no timeout is set on it)
ExtractReplySet ==
    { [kind |-> "error", items |-> <<>>],
      [kind |-> "hang", items |-> <<>>] }
    \cup { [kind |-> "json", items |-> l] :
             l \in { <<>>, <<ItemA>>, <<ItemB, ItemA>>, <<ItemNoName, ItemNoUsage>> } }

PlanReplySet ==
    { [kind |-> "error", shape |-> "missing", value |-> <<>>],
      [kind |-> "hang", shape |-> "missing", value |-> <<>>],
      [kind |-> "json", shape |-> "missing", value |-> <<>>] }
    \cup { [kind |-> "json", shape |-> "array", value |-> l] :
             l \in SeqsUpTo({<<"a">>, <<"b">>}, MaxQueries)
                     \cup { << <<" ">> >>, << <<" ", "b">>, <<>> >> } }
    \cup { [kind |-> "json", shape |-> "scalar", value |-> <<v>>] :
             v \in { <<"a">>, <<" ">>, <<>> } }

CatalogReplySet ==
    { [kind |-> "fail", results |-> <<>>],
      [kind |-> "hang", results |-> <<>>],
      [kind |-> "noniter", results |-> <<>>] }
    \cup { [kind |-> "ok", results |-> l] :
             l \in { <<>>,
                     << Entry("p1", Some(30)), Entry("p2", Some(30)) >>,
                     << Entry("p1", Some(60)) >>,
                     << NullEntry >> } }

RankReplySet ==
    { [kind |-> "error", shape |-> "missing", value |-> <<>>],
      [kind |-> "hang", shape |-> "missing", value |-> <<>>],
      [kind |-> "json", shape |-> "missing", value |-> <<>>] }
    \cup { [kind |-> "json", shape |-> "array", value |-> l] :
             l \in { <<>>,
                     << RankItem("p1", 1, 30) >>,
                     << RankItem("p1", 5, 30) >>,
                     << RankItem("zz", 1, 10) >>,
                     << NullRankItem >> } }

AmazonOutcomeSet ==
    { [ok |-> FALSE, results |-> <<>>],
      [ok |-> TRUE, results |-> <<>>],
      [ok |-> TRUE, results |-> << ExtResult(<<"a">>, Url, <<"a">>, <<"$30">>) >>] }

DdgOutcomeSet ==
    { [ok |-> FALSE, results |-> <<>>],
      [ok |-> TRUE, results |-> <<>>],
      [ok |-> TRUE, results |-> << ExtResult(<<"b">>, Url, <<"b", "$20">>, <<>>) >>] }

NoCall == [to |-> "none"]

HandlerIdle ==
    /\ hasKey = FALSE
    /\ req = [prompt |-> <<>>, fundsCrypto |-> 0, forecastHorizon |-> 0]
    /\ pc = "idle"
    /\ net = NoCall
    /\ forecastedItems = <<>>
    /\ grokQueriesResult = [ok |-> FALSE, search_queries |-> <<>>]
    /\ searchQueries = <<>>
    /\ qi = 0
    /\ calls = <<>>
    /\ allResults = <<>>
    /\ usedQueries = <<>>
    /\ unfoundQueries = <<>>
    /\ rawUnfoundSearches = <<>>
    /\ res = None

Init ==
    /\ hasKey \in BOOLEAN
    /\ req \in [prompt : PromptSet, fundsCrypto : FundsSet, forecastHorizon : HorizonSet]
    /\ pc = "start"
    /\ net = NoCall
    /\ forecastedItems = <<>>
    /\ grokQueriesResult = [ok |-> FALSE, search_queries |-> <<>>]
    /\ searchQueries = <<>>
    /\ qi = 0
    /\ calls = <<>>
    /\ allResults = <<>>
    /\ usedQueries = <<>>
    /\ unfoundQueries = <<>>
    /\ rawUnfoundSearches = <<>>
    /\ res = None
    /\ bui = BuiIdle
    /\ msr = MsrIdle
    /\ holt = HoltIdle
    /\ fcd = FcdIdle
    /\ sel = SelIdle
    /\ ui = UiIdle

\* the hardcoded answer to a holiday / fastest-selling prompt
HolidayShortcut ==
    /\ pc = "start"
    /\ isHolidaySellPrompt(req.prompt)
    /\ res' = Some(HolidayResponse(req.fundsCrypto))
    /\ pc' = "done"
    /\ UNCHANGED <<hasKey, req, net, forecastedItems, grokQueriesResult, searchQueries,
                   qi, calls, allResults, usedQueries, unfoundQueries,
                   rawUnfoundSearches, pureVars>>

\* Step 1 without API key: callGrokParseItems returns { ok: false } at once
ExtractNoKey ==
    /\ pc = "start"
    /\ ~isHolidaySellPrompt(req.prompt)
    /\ ~hasKey
    /\ forecastedItems' = <<>>
    /\ pc' = "parsed"
    /\ UNCHANGED <<hasKey, req, net, grokQueriesResult, searchQueries, qi, calls,
                   allResults, usedQueries, unfoundQueries, rawUnfoundSearches, res,
                   pureVars>>

\* Step 1: callGrokParseItems posts the chat completion
ExtractCall ==
    /\ pc = "start"
    /\ ~isHolidaySellPrompt(req.prompt)
    /\ hasKey
    /\ \E reply \in ExtractReplySet : net' = [to |-> "extract", reply |-> reply]
    /\ pc' = "extract_wait"
    /\ UNCHANGED <<hasKey, req, forecastedItems, grokQueriesResult, searchQueries, qi,
                   calls, allResults, usedQueries, unfoundQueries, rawUnfoundSearches,
                   res, pureVars>>

\* Steps 1 and 2: the parse result arrives; forecastDemand
ExtractReturn ==
    /\ pc = "extract_wait"
    /\ net.reply.kind # "hang"
    /\ LET parseResult == callGrokParseItems(net.reply)
       IN  forecastedItems' =
               IF parseResult.ok /\ parseResult.items # <<>>
               THEN forecastDemand(parseResult.items, req.forecastHorizon)
               ELSE <<>>
    /\ net' = NoCall
    /\ pc' = "parsed"
    /\ UNCHANGED <<hasKey, req, grokQueriesResult, searchQueries, qi, calls, allResults,
                   usedQueries, unfoundQueries, rawUnfoundSearches, res, pureVars>>

\* Step 3 without API key
PlanNoKey ==
    /\ pc = "parsed"
    /\ ~hasKey
    /\ grokQueriesResult' = [ok |-> FALSE, search_queries |-> <<>>]
    /\ searchQueries' = PlannedQueries(grokQueriesResult', forecastedItems, req.prompt)
    /\ pc' = "planned"
    /\ UNCHANGED <<hasKey, req, net, forecastedItems, qi, calls, allResults, usedQueries,
                   unfoundQueries, rawUnfoundSearches, res, pureVars>>

\* Step 3: callGrokForSearchQueries posts the chat completion
PlanCall ==
    /\ pc = "parsed"
    /\ hasKey
    /\ \E reply \in PlanReplySet : net' = [to |-> "plan", reply |-> reply]
    /\ pc' = "plan_wait"
    /\ UNCHANGED <<hasKey, req, forecastedItems, grokQueriesResult, searchQueries, qi,
                   calls, allResults, usedQueries, unfoundQueries, rawUnfoundSearches,
                   res, pureVars>>

\* Step 3: the query list arrives, or the fallback is taken
PlanReturn ==
    /\ pc = "plan_wait"
    /\ net.reply.kind # "hang"
    /\ grokQueriesResult' = callGrokForSearchQueries(net.reply)
    /\ searchQueries' = PlannedQueries(grokQueriesResult', forecastedItems, req.prompt)
    /\ net' = NoCall
    /\ pc' = "planned"
    /\ UNCHANGED <<hasKey, req, forecastedItems, qi, calls, allResults, usedQueries,
                   unfoundQueries, rawUnfoundSearches, res, pureVars>>

\* Step 4: callWebShopSearch(q) for the next query of the loop
SearchCall ==
    /\ pc = "planned"
    /\ qi < Len(searchQueries)
    /\ \E reply \in CatalogReplySet :
          /\ net' = [to |-> "catalog", reply |-> reply]
          /\ calls' = Append(calls, [query |-> searchQueries[qi + 1], reply |-> reply])
    /\ pc' = "search_wait"
    /\ UNCHANGED <<hasKey, req, forecastedItems, grokQueriesResult, searchQueries, qi,
                   allResults, usedQueries, unfoundQueries, rawUnfoundSearches, res,
                   pureVars>>

\* Step 4: the catalog answered (or failed); the query is classified
SearchReturn ==
    /\ pc = "search_wait"
    /\ net.reply.kind \notin {"noniter", "hang"}
    /\ LET after == SearchClassify(searchQueries[qi + 1], net.reply,
                                   allResults, usedQueries, unfoundQueries)
       IN  /\ allResults' = after.allResults
           /\ usedQueries' = after.usedQueries
           /\ unfoundQueries' = after.unfoundQueries
    /\ qi' = qi + 1
    /\ net' = NoCall
    /\ pc' = "planned"
    /\ UNCHANGED <<hasKey, req, forecastedItems, grokQueriesResult, searchQueries, calls,
                   rawUnfoundSearches, res, pureVars>>

\* Step 4: data.results has a length but cannot be spread: push(...) throws
SearchThrow ==
    /\ pc = "search_wait"
    /\ net.reply.kind = "noniter"
    /\ res' = Some(ErrorResponse)
    /\ net' = NoCall
    /\ pc' = "done"
    /\ UNCHANGED <<hasKey, req, forecastedItems, grokQueriesResult, searchQueries, qi,
                   calls, allResults, usedQueries, unfoundQueries, rawUnfoundSearches,
                   pureVars>>

\* no unfound query: rawUnfoundSearches = []
ExtSkip ==
    /\ pc = "planned"
    /\ qi = Len(searchQueries)
    /\ unfoundQueries = <<>>
    /\ rawUnfoundSearches' = <<>>
    /\ pc' = "joined"
    /\ UNCHANGED <<hasKey, req, net, forecastedItems, grokQueriesResult, searchQueries,
                   qi, calls, allResults, usedQueries, unfoundQueries, res, pureVars>>

\* Promise.all(unfoundQueries.map((q) => runExternalSearch(q, 5))): all started
ExtStart ==
    /\ pc = "planned"
    /\ qi = Len(searchQueries)
    /\ unfoundQueries # <<>>
    /\ rawUnfoundSearches' = [k \in 1..Len(unfoundQueries) |-> None]
    /\ pc' = "ext_wait"
    /\ UNCHANGED <<hasKey, req, net, forecastedItems, grokQueriesResult, searchQueries,
                   qi, calls, allResults, usedQueries, unfoundQueries, res, pureVars>>

\* SettleSearch filling the slots in order of completion
SettleSearchInArrivalOrder(slots, k, results) ==
    LET free == {j \in 1..Len(slots) : slots[j] = None}
        j    == CHOOSE j \in free : \A i \in free : j <= i
    IN  [slots EXCEPT ![j] = Some(results)]

\* Promise.all keeps the value of the k-th promise at position k
SettleSearch(slots, k, results) == [slots EXCEPT ![k] = Some(results)]

\* one runExternalSearch completes, in any order
ExtComplete ==
    /\ pc = "ext_wait"
    /\ \E k \in 1..Len(unfoundQueries) :
          /\ rawUnfoundSearches[k] = None
          /\ \E amazon \in AmazonOutcomeSet, ddg \in DdgOutcomeSet :
                rawUnfoundSearches' =
                    SettleSearch(rawUnfoundSearches, k,
                                 runExternalSearch(unfoundQueries[k], amazon, ddg))
    /\ UNCHANGED <<hasKey, req, pc, net, forecastedItems, grokQueriesResult,
                   searchQueries, qi, calls, allResults, usedQueries, unfoundQueries,
                   res, pureVars>>

\* Promise.all resolves once every search has completed
ExtJoin ==
    /\ pc = "ext_wait"
    /\ \A k \in 1..Len(unfoundQueries) : rawUnfoundSearches[k] # None
    /\ pc' = "joined"
    /\ UNCHANGED <<hasKey, req, net, forecastedItems, grokQueriesResult, searchQueries,
                   qi, calls, allResults, usedQueries, unfoundQueries,
                   rawUnfoundSearches, res, pureVars>>

\* allResults.length === 0: unfound items only
RespondNoResults ==
    /\ pc = "joined"
    /\ allResults = <<>>
    /\ res' = Some(NoResultsResponse(unfoundQueries, rawUnfoundSearches, req.fundsCrypto))
    /\ pc' = "done"
    /\ UNCHANGED <<hasKey, req, net, forecastedItems, grokQueriesResult, searchQueries,
                   qi, calls, allResults, usedQueries, unfoundQueries,
                   rawUnfoundSearches, pureVars>>

\* mergeSearchResults reads r.asin of a null entry: caught by the handler
MergeThrow ==
    /\ pc = "joined"
    /\ allResults # <<>>
    /\ MergeThrows(allResults)
    /\ res' = Some(ErrorResponse)
    /\ pc' = "done"
    /\ UNCHANGED <<hasKey, req, net, forecastedItems, grokQueriesResult, searchQueries,
                   qi, calls, allResults, usedQueries, unfoundQueries,
                   rawUnfoundSearches, pureVars>>

\* Step 5 without ranking: recommendFromWebShop falls back at once
SelectWithoutRanking ==
    /\ pc = "joined"
    /\ allResults # <<>>
    /\ ~MergeThrows(allResults)
    /\ LET merged == mergeSearchResults(allResults)
       IN  /\ ~(hasKey /\ merged # <<>>)
           /\ res' = Some(FinalResponse(recommendFromWebShop(merged, req.fundsCrypto, None),
                                        unfoundQueries, rawUnfoundSearches,
                                        req.fundsCrypto))
    /\ pc' = "done"
    /\ UNCHANGED <<hasKey, req, net, forecastedItems, grokQueriesResult, searchQueries,
                   qi, calls, allResults, usedQueries, unfoundQueries,
                   rawUnfoundSearches, pureVars>>

\* Step 5: callGrokOnSearchResults posts the chat completion
RankCall ==
    /\ pc = "joined"
    /\ allResults # <<>>
    /\ ~MergeThrows(allResults)
    /\ hasKey /\ mergeSearchResults(allResults) # <<>>
    /\ \E reply \in RankReplySet : net' = [to |-> "rank", reply |-> reply]
    /\ pc' = "rank_wait"
    /\ UNCHANGED <<hasKey, req, forecastedItems, grokQueriesResult, searchQueries, qi,
                   calls, allResults, usedQueries, unfoundQueries, rawUnfoundSearches,
                   res, pureVars>>

\* Step 5: the ranking arrives; total cost, unfound items, response
RankReturn ==
    /\ pc = "rank_wait"
    /\ net.reply.kind # "hang"
    /\ LET merged     == mergeSearchResults(allResults)
           grokResult == callGrokOnSearchResults(net.reply)
       IN  res' = Some(FinalResponse(
                          recommendFromWebShop(merged, req.fundsCrypto, Some(grokResult)),
                          unfoundQueries, rawUnfoundSearches, req.fundsCrypto))
    /\ net' = NoCall
    /\ pc' = "done"
    /\ UNCHANGED <<hasKey, req, forecastedItems, grokQueriesResult, searchQueries, qi,
                   calls, allResults, usedQueries, unfoundQueries, rawUnfoundSearches,
                   pureVars>>

Next ==
    \/ HolidayShortcut
    \/ ExtractNoKey \/ ExtractCall \/ ExtractReturn
    \/ PlanNoKey \/ PlanCall \/ PlanReturn
    \/ SearchCall \/ SearchReturn \/ SearchThrow
    \/ ExtSkip \/ ExtStart \/ ExtComplete \/ ExtJoin
    \/ RespondNoResults \/ MergeThrow \/ SelectWithoutRanking
    \/ RankCall \/ RankReturn

Spec == Init /\ [][Next]_vars

\* The handler runs on: every pending await whose promise settles is resumed,
\* and the timers of runExternalSearch fire.
FairSpec == Spec /\ WF_vars(Next)

-----------------------------------------------------------------------------
(* Inputs of the stand-alone runs of buildUnfoundItems *)

QueryX == <<"a">>
QueryY == <<"b">>
QueryPriced == <<"c", "$10">>

UnfoundQuerySet == {QueryX, QueryY, QueryPriced}

BatchSet ==
    { <<>>,
      << ExtResult(<<"a">>, Url, <<"a">>, <<"$30">>) >>,
      << ExtResult(<<"b">>, Url, <<"b">>, <<"$20">>) >>,
      << ExtResult(<<"a">>, Url, <<"a", "$60">>, <<>>) >>,
      << ExtResult(<<"a", "$10">>, Url, <<>>, <<>>) >>,
      << ExtResult(<<"a">>, <<>>, <<"a">>, <<>>) >>,
      << ExtResult(<<"a">>, Url, <<"$0", "$20">>, <<>>),
         ExtResult(<<"b">>, Url, <<"b">>, <<"$30">>) >> }

BudgetSet == {0, 10, 20, 50, 100}

InitUnfound ==
    /\ \E queries \in SeqsUpTo(UnfoundQuerySet, MaxUnfound) :
         \E searches \in [1..Len(queries) -> BatchSet] :
           \E budgetForQuantity \in BudgetSet :
             bui = [unfoundQueries |-> queries, rawSearches |-> searches,
                    budgetForQuantity |-> budgetForQuantity,
                    i |-> 0, remaining |-> InitialRemaining(budgetForQuantity),
                    items |-> <<>>, pc |-> "loop"]
    /\ msr = MsrIdle
    /\ holt = HoltIdle
    /\ fcd = FcdIdle
    /\ sel = SelIdle
    /\ ui = UiIdle
    /\ HandlerIdle

\* one iteration of the for loop (i is the number of queries already processed)
BuiIterate ==
    /\ bui.pc = "loop"
    /\ bui.i < Len(bui.unfoundQueries)
    /\ LET step == UnfoundIteration(bui.remaining, bui.unfoundQueries[bui.i + 1],
                                    BatchAt(bui.rawSearches, bui.i + 1))
       IN  bui' = [bui EXCEPT !.i = @ + 1, !.remaining = step.remaining,
                              !.items = Append(@, step.item)]
    /\ UNCHANGED <<msr, holt, fcd, sel, ui, handlerVars>>

\* return items
BuiReturn ==
    /\ bui.pc = "loop"
    /\ bui.i = Len(bui.unfoundQueries)
    /\ bui' = [bui EXCEPT !.pc = "returned"]
    /\ UNCHANGED <<msr, holt, fcd, sel, ui, handlerVars>>

NextUnfound == BuiIterate \/ BuiReturn

SpecUnfound == InitUnfound /\ [][NextUnfound]_vars

-----------------------------------------------------------------------------
(* Inputs of the stand-alone runs of mergeSearchResults *)

EntrySet ==
    { Entry("p1", Some(30)), Entry("p1", Some(60)), Entry("p2", Some(30)),
      Entry("p2", None), Entry("", Some(10)), NullEntry }

InitMerge ==
    /\ \E results \in SeqsUpTo(EntrySet, MaxPool) :
          msr = [allResults |-> results, out |-> <<>>, pc |-> "called"]
    /\ bui = BuiIdle
    /\ holt = HoltIdle
    /\ fcd = FcdIdle
    /\ sel = SelIdle
    /\ ui = UiIdle
    /\ HandlerIdle

MsrReturn ==
    /\ msr.pc = "called"
    /\ ~MergeThrows(msr.allResults)
    /\ msr' = [msr EXCEPT !.out = mergeSearchResults(msr.allResults), !.pc = "returned"]
    /\ UNCHANGED <<bui, holt, fcd, sel, ui, handlerVars>>

MsrThrow ==
    /\ msr.pc = "called"
    /\ MergeThrows(msr.allResults)
    /\ msr' = [msr EXCEPT !.pc = "threw"]
    /\ UNCHANGED <<bui, holt, fcd, sel, ui, handlerVars>>

NextMerge == MsrReturn \/ MsrThrow

SpecMerge == InitMerge /\ [][NextMerge]_vars

-----------------------------------------------------------------------------
(* Inputs of the stand-alone runs of holtForecast and of the per-product
   step of GET /api/dashboard/forecast *)

MaxSeries == 3          \* longest enumerated series (the worked series has 4 points)

QuantitySet == {0, 4, 6, 10}

ExampleSeries == <<10, 8, 6, 4>>

SeriesSet == SeqsUpTo(QuantitySet, MaxSeries) \cup {ExampleSeries}

AlphaSet == {Rat(3, 10), Rat(1, 2)}
BetaSet == {Rat(1, 10), Rat(1, 2)}
HorizonArgSet == {1, 3}
RequestedHorizonSet == {0, 3}
ReorderPointSet == {0, 5, 20}

HoltFrame(via, series, alpha, beta, horizon, reorderPoint) ==
    [via |-> via, series |-> series, alpha |-> alpha, beta |-> beta,
     horizon |-> horizon, reorderPoint |-> reorderPoint,
     out |-> [forecast |-> <<>>, level |-> RInt(0), trend |-> RInt(0)],
     daysUntilReorder |-> None, pc |-> "called"]

\* holtForecast called with any arguments, or by the endpoint for a product:
\* a product of byAsin has at least one point
InitHolt ==
    /\ \/ \E series \in SeriesSet, alpha \in AlphaSet, beta \in BetaSet,
             horizon \in HorizonArgSet :
             holt = HoltFrame("direct", series, alpha, beta, horizon, 0)
       \/ \E series \in SeriesSet \ {<<>>}, requested \in RequestedHorizonSet,
             reorderPoint \in ReorderPointSet :
             holt = HoltFrame("endpoint", series, Rat(3, 10), Rat(1, 10),
                              DashboardHorizon(requested), reorderPoint)
    /\ bui = BuiIdle
    /\ msr = MsrIdle
    /\ fcd = FcdIdle
    /\ sel = SelIdle
    /\ ui = UiIdle
    /\ HandlerIdle

\* return { forecast, level: L, trend: b }
HoltReturn ==
    /\ holt.pc = "called"
    /\ holt' = [holt EXCEPT
                   !.out = holtForecast(holt.series, holt.alpha, holt.beta, holt.horizon),
                   !.pc = "returned"]
    /\ UNCHANGED <<bui, msr, fcd, sel, ui, handlerVars>>

\* the endpoint derives days_until_reorder from the forecast and the trend
ReorderScan ==
    /\ holt.pc = "returned"
    /\ holt.via = "endpoint"
    /\ holt' = [holt EXCEPT
                   !.daysUntilReorder =
                       DaysUntilReorder(holt.out.forecast, holt.out.trend,
                                        holt.reorderPoint),
                   !.pc = "pushed"]
    /\ UNCHANGED <<bui, msr, fcd, sel, ui, handlerVars>>

NextHolt == HoltReturn \/ ReorderScan

SpecHolt == InitHolt /\ [][NextHolt]_vars

-----------------------------------------------------------------------------
(* Inputs of the stand-alone runs of forecastDemand *)

MaxItems == 2           \* longest parsedItems list given to forecastDemand

\* daily_usage > 0 (callGrokParseItems keeps no other item): 2, 0.5, 0.25, 1.1
UsageSet == {Usage(2, 1), Usage(1, 2), Usage(1, 4), Usage(11, 10)}

DemandHorizonSet == {1, 7, 30, 50}

InitDemand ==
    /\ \E usages \in SeqsUpTo(UsageSet, MaxItems), horizonDays \in DemandHorizonSet :
          fcd = [parsedItems |-> [k \in 1..Len(usages) |->
                                    [name |-> <<"a">>, daily_usage |-> usages[k]]],
                 horizonDays |-> horizonDays, out |-> <<>>, pc |-> "called"]
    /\ bui = BuiIdle
    /\ msr = MsrIdle
    /\ holt = HoltIdle
    /\ sel = SelIdle
    /\ ui = UiIdle
    /\ HandlerIdle

\* return parsedItems.map(...)
FcdReturn ==
    /\ fcd.pc = "called"
    /\ fcd' = [fcd EXCEPT !.out = forecastDemand(fcd.parsedItems, fcd.horizonDays),
                          !.pc = "returned"]
    /\ UNCHANGED <<bui, msr, holt, sel, ui, handlerVars>>

NextDemand == FcdReturn

SpecDemand == InitDemand /\ [][NextDemand]_vars

-----------------------------------------------------------------------------
(* Inputs of the stand-alone runs of recommendFromWebShop in which the
   ranking step gives no items *)

MaxSelPool == 10        \* longest merged pool given to recommendFromWebShop

\* how the prices run through a pool: all 10; 10 and 60 in turn; 30 with
\* every third price missing
PricePatternSet == {"flat", "mixed", "gaps"}

PriceAt(pattern, k) ==
    IF pattern = "flat" THEN Some(10)
    ELSE IF pattern = "mixed" THEN (IF k % 2 = 0 THEN Some(60) ELSE Some(10))
    ELSE (IF k % 3 = 0 THEN None ELSE Some(30))

\* a merged pool of n distinct products
SelPool(n, pattern) == [k \in 1..n |-> Entry(ToString(k), PriceAt(pattern, k))]

\* no key or empty pool; callGrokOnSearchResults failed; it returned no items
RankingOutcomeSet == {"unavailable", "failed", "empty"}

GrokResultOf(ranking) ==
    IF ranking = "unavailable" THEN None
    ELSE IF ranking = "failed" THEN Some([ok |-> FALSE, items |-> <<>>])
    ELSE Some([ok |-> TRUE, items |-> <<>>])

InitSelect ==
    /\ \E n \in 0..MaxSelPool, pattern \in PricePatternSet, fundsCrypto \in FundsSet,
          ranking \in RankingOutcomeSet :
          /\ (n = 0 => ranking = "unavailable")
          /\ sel = [mergedResults |-> SelPool(n, pattern), fundsCrypto |-> fundsCrypto,
                    ranking |-> ranking, out |-> <<>>, pc |-> "called"]
    /\ bui = BuiIdle
    /\ msr = MsrIdle
    /\ holt = HoltIdle
    /\ fcd = FcdIdle
    /\ ui = UiIdle
    /\ HandlerIdle

\* the fallback return of recommendFromWebShop
SelReturn ==
    /\ sel.pc = "called"
    /\ sel' = [sel EXCEPT
                  !.out = recommendFromWebShop(sel.mergedResults, sel.fundsCrypto,
                                               GrokResultOf(sel.ranking)).items,
                  !.pc = "returned"]
    /\ UNCHANGED <<bui, msr, holt, fcd, ui, handlerVars>>

NextSelect == SelReturn

SpecSelect == InitSelect /\ [][NextSelect]_vars

-----------------------------------------------------------------------------
(* The frontend: the App component (Shop tab).  Amounts are whole dollars. *)

STABLECOINS == {"USDC", "USDT"}

MAX_FUNDS_USD == 10000

\* amountNum * (cryptoUsdRate ?? (STABLECOINS.includes(cryptoToken) ? 1 : 0)), or
\* amountNum for a card
fundsAmountUsd(u) ==
    IF u.fundsSource = "card" THEN u.fundsAmount
    ELSE u.fundsAmount * (IF u.cryptoUsdRate # None THEN u.cryptoUsdRate[1]
                          ELSE IF u.cryptoToken \in STABLECOINS THEN 1 ELSE 0)

fundsOverLimit(u) == fundsAmountUsd(u) > MAX_FUNDS_USD

\* the effect on [fundsSource, cryptoToken]: the rate is dropped and fetched anew
RateEffect(u) ==
    IF u.fundsSource # "crypto" THEN u
    ELSE [u EXCEPT !.cryptoUsdRate = None,
                   !.pendingRates = @ \cup {u.cryptoToken}]

\* StartRequest leaving the approval as it is
StartRequestKeepsApproval(u) ==
    [u EXCEPT !.error = FALSE, !.recommendation = None, !.loading = TRUE,
              !.request = Some([fundsCrypto |-> fundsAmountUsd(u)])]

\* runRecommend up to the fetch: the state it sets and the body it posts
StartRequest(u) ==
    [u EXCEPT !.error = FALSE, !.recommendation = None, !.approved = FALSE,
              !.loading = TRUE,
              !.request = Some([fundsCrypto |-> fundsAmountUsd(u)])]

\* runningBalance after the first k items of items.map(...)
RECURSIVE RunningBalance(_, _, _)
RunningBalance(items, startBalance, k) ==
    IF k = 0 THEN startBalance
    ELSE RunningBalance(items, startBalance, k - 1)
            - items[k].quantity * items[k].unit_price

\* PaymentSteps debiting the unit price once per item
PaymentStepsPerUnit(items, startBalance) ==
    [k \in 1..Len(items) |->
        [quantity |-> items[k].quantity, unit_price |-> items[k].unit_price,
         lineTotal |-> items[k].unit_price,
         balanceAfter |-> startBalance
                            - SumSeq([j \in 1..k |-> items[j].unit_price])]]

\* const paymentSteps = items.map((item) => { ... })
PaymentSteps(items, startBalance) ==
    [k \in 1..Len(items) |->
        [quantity |-> items[k].quantity, unit_price |-> items[k].unit_price,
         lineTotal |-> items[k].quantity * items[k].unit_price,
         balanceAfter |-> RunningBalance(items, startBalance, k)]]

\* the payment table rendered under {approved && ...}; None when not rendered
Ledger(u) ==
    IF u.recommendation # None /\ u.approved
    THEN LET items        == u.recommendation[1].items
             startBalance == fundsAmountUsd(u)
             steps        == PaymentSteps(items, startBalance)
             final        == IF steps = <<>> THEN startBalance
                             ELSE steps[Len(steps)].balanceAfter
         IN  Some([startBalance |-> startBalance, paymentSteps |-> steps,
                   totalSpent |-> startBalance - final, runningBalance |-> final])
    ELSE None

(* What the user and the two services may do *)

SourceSet == {"crypto", "card"}
TokenSet == {"USDC", "ETH"}
AmountSet == {0, 50, 100, 20000}

\* what fetchCryptoUsdRate(token) can resolve to: a rate > 0 or null
RateReplySet(token) == IF token \in STABLECOINS THEN {Some(1), None} ELSE {Some(2), None}

\* bodies of a successful /api/recommend answer
RecommendDataSet ==
    { [items |-> l, totalCost |-> TotalCost(l)] :
        l \in { <<>>,
                << RankItem("p1", 1, 30) >>,
                << RankItem("p1", 3, 30), RankItem("p2", 1, 10) >> } }

\* the component after mounting: the first rate fetch is under way
InitUI ==
    /\ ui = [pc |-> "mounted", fundsSource |-> "crypto", fundsAmount |-> 100,
             cryptoToken |-> "USDC", cryptoUsdRate |-> None,
             pendingRates |-> {"USDC"}, recommendation |-> None,
             approved |-> FALSE, loading |-> FALSE, error |-> FALSE,
             request |-> None]
    /\ bui = BuiIdle
    /\ msr = MsrIdle
    /\ holt = HoltIdle
    /\ fcd = FcdIdle
    /\ sel = SelIdle
    /\ HandlerIdle

\* onChange of the amount input
EditFundsAmount ==
    /\ \E amount \in AmountSet :
          /\ amount # ui.fundsAmount
          /\ ui' = [ui EXCEPT !.fundsAmount = amount]
    /\ UNCHANGED <<bui, msr, holt, fcd, sel, handlerVars>>

\* click on the Crypto or Card tab
SetFundsSource ==
    /\ \E source \in SourceSet :
          /\ source # ui.fundsSource
          /\ ui' = RateEffect([ui EXCEPT !.fundsSource = source])
    /\ UNCHANGED <<bui, msr, holt, fcd, sel, handlerVars>>

\* onChange of the token select
SetCryptoToken ==
    /\ ui.fundsSource = "crypto"
    /\ \E token \in TokenSet :
          /\ token # ui.cryptoToken
          /\ ui' = RateEffect([ui EXCEPT !.cryptoToken = token])
    /\ UNCHANGED <<bui, msr, holt, fcd, sel, handlerVars>>

\* a rate fetch resolves, for the token it was started for
RateArrives ==
    /\ \E token \in ui.pendingRates : \E rate \in RateReplySet(token) :
          ui' = [ui EXCEPT !.pendingRates = @ \ {token}, !.cryptoUsdRate = rate]
    /\ UNCHANGED <<bui, msr, holt, fcd, sel, handlerVars>>

\* a rate fetch rejects: the catch reads the current token
RateFails ==
    /\ \E token \in ui.pendingRates :
          ui' = [ui EXCEPT !.pendingRates = @ \ {token},
                           !.cryptoUsdRate = IF ui.cryptoToken \in STABLECOINS
                                             THEN Some(1) ELSE @]
    /\ UNCHANGED <<bui, msr, holt, fcd, sel, handlerVars>>

\* click on "Get agent recommendation"
RunRecommend ==
    /\ ~ui.loading
    /\ ~fundsOverLimit(ui)
    /\ ui' = StartRequest(ui)
    /\ UNCHANGED <<bui, msr, holt, fcd, sel, handlerVars>>

\* the answer arrives: setRecommendation(data), then setLoading(false)
RecommendArrives ==
    /\ ui.loading
    /\ \E data \in RecommendDataSet :
          ui' = [ui EXCEPT !.recommendation = Some(data), !.loading = FALSE]
    /\ UNCHANGED <<bui, msr, holt, fcd, sel, handlerVars>>

\* the answer carries an error or the fetch fails: setError, setLoading(false)
RecommendFails ==
    /\ ui.loading
    /\ ui' = [ui EXCEPT !.error = TRUE, !.loading = FALSE]
    /\ UNCHANGED <<bui, msr, holt, fcd, sel, handlerVars>>

\* click on Approve, rendered under {recommendation && ...} while !approved
Approve ==
    /\ ui.recommendation # None
    /\ ~ui.approved
    /\ ui' = [ui EXCEPT !.approved = TRUE]
    /\ UNCHANGED <<bui, msr, holt, fcd, sel, handlerVars>>

NextUI ==
    \/ EditFundsAmount \/ SetFundsSource \/ SetCryptoToken
    \/ RateArrives \/ RateFails
    \/ RunRecommend \/ RecommendArrives \/ RecommendFails
    \/ Approve

SpecUI == InitUI /\ [][NextUI]_vars

-----------------------------------------------------------------------------
(* Claims about buildUnfoundItems, checked under SpecUnfound *)

\* C2: in buildUnfoundItems, for every starting budget >= 0, the shared
\* remaining budget is >= 0 after each query has been processed.
C2_RemainingNeverNegative ==
    bui.pc \in {"loop", "returned"} => bui.remaining >= 0

\* The item pushed by the iteration that has just run.
BuiLastItem == bui.items[Len(bui.items)]

\* C3 (rule): an item with a recovered price gets floor(remaining / price)
\* clamped to [1, 99] and quantity * price is debited, except that when
\* price > remaining the quantity is 1 and nothing is debited.
C3_Rule ==
    BuiIterate =>
        LET item == BuiLastItem'
            p    == item.unit_price
        IN  p # None =>
              IF p[1] > bui.remaining
              THEN item.quantity = 1 /\ bui'.remaining = bui.remaining
              ELSE /\ item.quantity = Min(99, Max(1, bui.remaining \div p[1]))
                   /\ bui'.remaining = bui.remaining - item.quantity * p[1]

\* C3 (example): queries [x, y], remaining budget 100, x priced 30 and y
\* priced 20: x gets quantity 3 and 10 remains; y gets quantity 1 and the
\* remaining budget stays 10.
C3_ExampleInput ==
    /\ bui.unfoundQueries = <<QueryX, QueryY>>
    /\ bui.budgetForQuantity = 100
    /\ bui.rawSearches = << << ExtResult(<<"a">>, Url, <<"a">>, <<"$30">>) >>,
                            << ExtResult(<<"b">>, Url, <<"b">>, <<"$20">>) >> >>

C3_Example ==
    (C3_ExampleInput /\ bui.pc = "returned") =>
        /\ bui.items[1].quantity = 3 /\ bui.items[1].line_total = Some(90)
        /\ bui.items[2].quantity = 1
        /\ bui.remaining = 10

\* C3: the quantity and debit rule of buildUnfoundItems and its worked example.
C3_QuantityAndDebit == [][C3_Rule]_vars /\ [](C3_Example)

-----------------------------------------------------------------------------
(* Claims about mergeSearchResults, checked under SpecMerge *)

\* The product ids of a pool, and the place where an id occurs first.
PoolIds(pool) == {pool[i].asin : i \in 1..Len(pool)} \ {""}
FirstOccurrence(pool, asin) ==
    CHOOSE i \in 1..Len(pool) :
        pool[i].asin = asin /\ \A j \in 1..Len(pool) : pool[j].asin = asin => i <= j

\* C6: mergeSearchResults returns exactly one entry for each distinct
\* product_id of the combined pool, that entry being the first occurrence of
\* the id in pool order (the first-seen price is kept), and the entries
\* appear in order of first occurrence.
C6_MergeKeepsFirstOccurrence ==
    msr.pc = "returned" =>
        LET pool == msr.allResults
            out  == msr.out
        IN  /\ Len(out) = Cardinality(PoolIds(pool))
            /\ \A a \in PoolIds(pool) :
                  \E j \in 1..Len(out) : out[j] = pool[FirstOccurrence(pool, a)]
            /\ \A j, k \in 1..Len(out) :
                  j < k => FirstOccurrence(pool, out[j].asin)
                             < FirstOccurrence(pool, out[k].asin)

\* A merge of a pool in which a later duplicate carries another price.
C6_Witness ==
    /\ msr.pc = "returned"
    /\ \E i, j \in 1..Len(msr.allResults) :
          /\ i < j
          /\ msr.allResults[i].asin = msr.allResults[j].asin
          /\ msr.allResults[i].asin # ""
          /\ msr.allResults[i].price # msr.allResults[j].price
    /\ Len(msr.out) = 2

-----------------------------------------------------------------------------
(* Claims about the recommendation chain, checked under Spec *)

Responded == res # None
Response == res[1]

\* The request went through the chain (no holiday shortcut) and the query
\* planning of step 3 is over.
Planned ==
    /\ ~isHolidaySellPrompt(req.prompt)
    /\ pc \in {"planned", "search_wait", "ext_wait", "joined", "rank_wait", "done"}

\* The search loop of step 4 ran to its end.
LoopDone ==
    /\ Planned
    /\ pc # "search_wait"
    /\ qi = Len(searchQueries)

\* The Selector (recommendFromWebShop) returned and its result was sent.
SelectorAnswered ==
    /\ Responded
    /\ Response.status = 200
    /\ LoopDone
    /\ allResults # <<>>

\* C1: for every output of the Selector, from the ranking capability or from
\* the deterministic fallback, the sum of quantity * unit_price over the
\* returned items is <= the budget.
C1_SelectorWithinBudget ==
    SelectorAnswered => TotalCost(Response.items) <= req.fundsCrypto

\* C4: every item the Selector returns on its ranked path has a product_id
\* that occurs in the deduplicated pool passed to the ranking capability.
C4_RankedItemsFromPool ==
    (SelectorAnswered /\ Response.source = "grok") =>
        \A k \in 1..Len(Response.items) :
            Response.items[k].asin \in PoolIds(mergeSearchResults(allResults))

\* The places of the planned queries whose catalog call failed or returned
\* zero results, and of those that returned at least one result.
UnfoundPlaces ==
    {k \in 1..Len(calls) : calls[k].reply.kind = "fail" \/ calls[k].reply.results = <<>>}
FoundPlaces == {k \in 1..Len(calls) : Len(calls[k].reply.results) >= 1}

\* The queries (or their results) at the given places, in planned order.
RECURSIVE QueriesAt(_, _)
QueriesAt(places, n) ==
    IF n = 0 THEN <<>>
    ELSE IF n \in places THEN Append(QueriesAt(places, n - 1), calls[n].query)
         ELSE QueriesAt(places, n - 1)

RECURSIVE ResultsAt(_, _)
ResultsAt(places, n) ==
    IF n = 0 THEN <<>>
    ELSE IF n \in places THEN ResultsAt(places, n - 1) \o calls[n].reply.results
         ELSE ResultsAt(places, n - 1)

\* C5: after the Search Dispatcher loop every planned query is in exactly one
\* class: unfound iff its catalog call failed or returned zero results, found
\* (its results appended to the combined pool, in query order) iff it
\* returned at least one result; the unfound list keeps the planned order.
C5_QueriesClassified ==
    LoopDone =>
        /\ Len(calls) = Len(searchQueries)
        /\ \A k \in 1..Len(calls) : calls[k].query = searchQueries[k]
        /\ UnfoundPlaces \cap FoundPlaces = {}
        /\ UnfoundPlaces \cup FoundPlaces = 1..Len(searchQueries)
        /\ unfoundQueries = QueriesAt(UnfoundPlaces, Len(calls))
        /\ allResults = ResultsAt(FoundPlaces, Len(calls))

\* A finished loop with a failed call, a call without results and a found query.
C5_Witness ==
    /\ LoopDone
    /\ \E j, k \in 1..Len(calls) :
          /\ calls[j].reply.kind = "fail"
          /\ Len(calls[k].reply.results) >= 1
    /\ unfoundQueries # <<>>
    /\ allResults # <<>>

\* C7: within one request the catalog search is called exactly once for each
\* planned query, in planned order and with at most one call in flight; a
\* failed call is never retried and every later planned query is still
\* dispatched after it.
C7_EveryQueryDispatchedOnce ==
    /\ Len(calls) <= Len(searchQueries)
    /\ \A k \in 1..Len(calls) : calls[k].query = searchQueries[k]
    /\ (net.to = "catalog") => (pc = "search_wait" /\ Len(calls) = qi + 1)
    /\ (Responded /\ Planned) => Len(calls) = Len(searchQueries)

\* C8: the list of queries the Query Planner hands to the Search Dispatcher
\* has between 1 and 5 entries and each entry is a non-empty, trimmed string,
\* on the query-generation path and on every fallback path.
C8_PlannedQueriesWellFormed ==
    Planned =>
        /\ Len(searchQueries) \in 1..5
        /\ \A k \in 1..Len(searchQueries) :
              searchQueries[k] # <<>> /\ Trim(searchQueries[k]) = searchQueries[k]

\* The step that ends query planning.
PlanningEnds == pc \in {"parsed", "plan_wait"} /\ pc' = "planned"

\* The fallback was taken: the planned queries are not the capability's.
FallbackTaken == searchQueries # grokQueriesResult.search_queries

\* The fallback order of the Query Planner.
FallbackOrder ==
    IF forecastedItems # <<>>
    THEN searchQueries = [k \in 1..Len(forecastedItems) |-> forecastedItems[k].name]
    ELSE IF req.prompt # <<>> THEN searchQueries = <<req.prompt>>
         ELSE searchQueries = <<DefaultQuery>>

Blank(text) == \A k \in 1..Len(text) : text[k] = " "

\* The capability is unavailable (no key, or the call failed).
PlanUnavailable == pc = "parsed" \/ net.reply.kind # "json"

\* C9 as stated: the fallback is taken exactly when the capability is
\* unavailable or its query list is missing or not an array, and then the
\* planned queries are the forecasted names, else the raw request text,
\* else the default query.
C9_FallbackWhenMissingOrNotArray ==
    [][PlanningEnds =>
          /\ FallbackTaken' <=> (PlanUnavailable \/ net.reply.shape # "array")
          /\ FallbackTaken' => FallbackOrder']_vars

\* C9 as amended: the fallback is taken exactly when the capability is
\* unavailable or its answer holds no non-blank query (the list is missing,
\* empty or all blank; a value that is not an array counts as a list of one).
C9_FallbackWhenNoUsableQuery ==
    [][PlanningEnds =>
          /\ FallbackTaken' <=>
                \/ PlanUnavailable
                \/ net.reply.shape = "missing"
                \/ \A k \in 1..Len(net.reply.value) : Blank(net.reply.value[k])
          /\ FallbackTaken' => FallbackOrder']_vars

\* The capability answered with a list of blank entries and the forecasted
\* names were planned instead.
C9_Witness ==
    /\ pc = "planned" /\ qi = 0
    /\ hasKey
    /\ grokQueriesResult.ok
    /\ grokQueriesResult.search_queries = <<>>
    /\ forecastedItems # <<>>
    /\ searchQueries = [k \in 1..Len(forecastedItems) |-> forecastedItems[k].name]

\* C10: a request in which a capability is unavailable, fails or returns
\* malformed output still ends with a normal response, never with the
\* request-level error (500) response.
C10_NeverErrorResponse ==
    Responded => Response.status # 500

\* Every planned query ended in unfoundQueries.
AllUnfound == LoopDone /\ unfoundQueries = searchQueries

\* C12: when every planned query is unfound, the request ends in a normal
\* (non-error) response with no selected items, totalCost 0 and exactly one
\* unfound item per unfound query, in query order; the ranking capability is
\* not invoked.
C12_AllUnfoundIsNormalResponse ==
    AllUnfound =>
        /\ pc # "rank_wait"
        /\ net.to # "rank"
        /\ Responded =>
              /\ Response.status = 200
              /\ Response.items = <<>>
              /\ Response.totalCost = 0
              /\ Len(Response.unfound_items) = Len(unfoundQueries)
              /\ \A k \in 1..Len(unfoundQueries) :
                    Response.unfound_items[k].query = unfoundQueries[k]

\* Two planned queries, both unfound, one without any priced search result,
\* answered while the ranking capability was configured.
C12_Witness ==
    /\ AllUnfound
    /\ Responded
    /\ hasKey
    /\ Len(unfoundQueries) = 2
    /\ \E k \in 1..2 : Response.unfound_items[k].unit_price = None

-----------------------------------------------------------------------------
(* Claims about termination of the chain, checked under FairSpec *)

\* C11: every external call of the chain (item extraction, query generation,
\* catalog search, ranking, web-search fallback) is bounded by a timeout, so
\* even when one of them never answers the recommendation request eventually
\* produces a response.
C11_EveryRequestAnswered == <>Responded

-----------------------------------------------------------------------------
(* Claims about holtForecast and the dashboard forecast, checked under SpecHolt *)

HoltReturned == holt.pc # "called"

\* C13: for every series of non-negative numbers with at least one point,
\* every alpha and beta in (0,1) and every positive integer horizon H,
\* holtForecast returns a forecast of exactly H values, each an integer >= 0.
C13_ForecastLengthAndSign ==
    (HoltReturned /\ holt.series # <<>>) =>
        /\ Len(holt.out.forecast) = holt.horizon
        /\ \A k \in 1..Len(holt.out.forecast) : holt.out.forecast[k] \in Nat

\* A falling series whose extrapolation L + k*b goes below zero within the horizon.
C13_Witness ==
    /\ HoltReturned
    /\ holt.series # <<>>
    /\ holt.horizon = 3
    /\ \E k \in 1..3 :
          RRound(RAdd(holt.out.level, RMul(RInt(k), holt.out.trend))) < 0

\* C14: for an empty series holtForecast returns forecast = [], level = 0 and
\* trend = 0 for every horizon and every smoothing parameters, as a normal
\* result; from that result the dashboard derives no days_until_reorder.
C14_EmptySeries ==
    (HoltReturned /\ holt.series = <<>>) =>
        /\ holt.out = [forecast |-> <<>>, level |-> RInt(0), trend |-> RInt(0)]
        /\ \A reorderPoint \in ReorderPointSet :
              DaysUntilReorder(holt.out.forecast, holt.out.trend, reorderPoint) = None

\* holtForecast([], 0.5, 0.5, 3) has returned.
C14_Witness ==
    /\ holt.pc = "returned"
    /\ holt.series = <<>>
    /\ holt.horizon = 3
    /\ holt.alpha = Rat(1, 2)
    /\ holt.beta = Rat(1, 2)

\* The reference recurrence after the first n observations.
RECURSIVE RefHolt(_, _, _, _)
RefHolt(series, alpha, beta, n) ==
    IF n = 1
    THEN [L |-> RInt(series[1]),
          b |-> IF Len(series) = 1 THEN RInt(0) ELSE RInt(series[2] - series[1])]
    ELSE LET prev == RefHolt(series, alpha, beta, n - 1)
             x    == RInt(series[n])
             L    == RAdd(RMul(alpha, x),
                          RMul(RSub(RInt(1), alpha), RAdd(prev.L, prev.b)))
             b    == RAdd(RMul(beta, RSub(L, prev.L)),
                          RMul(RSub(RInt(1), beta), prev.b))
         IN  [L |-> L, b |-> b]

\* C15: level and trend equal the reference recurrence (L = series[0],
\* b = series[1] - series[0] or 0 for one point; then L = alpha*x +
\* (1-alpha)*(L_prev + b), b = beta*(L - L_prev) + (1-beta)*b with the updated
\* level), and forecast step k equals max(0, round(L + k*b)).
C15_ReferenceRecurrence ==
    (HoltReturned /\ holt.series # <<>>) =>
        LET ref == RefHolt(holt.series, holt.alpha, holt.beta, Len(holt.series))
        IN  /\ holt.out.level = ref.L
            /\ holt.out.trend = ref.b
            /\ \A k \in 1..holt.horizon :
                  /\ k \in DOMAIN holt.out.forecast
                  /\ LET v == RRound(RAdd(ref.L, RMul(RInt(k), ref.b)))
                      IN  holt.out.forecast[k] = IF v > 0 THEN v ELSE 0

\* Three points that are not on a line, so that the level moves off the
\* series and the trend changes in the loop.
C15_Witness ==
    /\ HoltReturned
    /\ Len(holt.series) = 3
    /\ holt.out.level.den > 1
    /\ holt.out.trend # RInt(holt.series[2] - holt.series[1])

ReorderDefined ==
    /\ holt.reorderPoint > 0
    /\ holt.out.trend.num < 0
    /\ \E k \in 1..Len(holt.out.forecast) : holt.out.forecast[k] <= holt.reorderPoint

\* C16: days_until_reorder is defined iff reorder_point > 0, the trend is < 0
\* and some forecast value within the horizon is <= reorder_point; it is then
\* the smallest 0-based index with a value <= reorder_point, plus 1.  For the
\* series [10, 8, 6, 4] with alpha 0.3, beta 0.1, horizon 3 and reorder_point 5
\* it is a positive integer not above 3.
C16_DaysUntilReorder ==
    /\ holt.pc = "pushed" =>
          /\ (holt.daysUntilReorder # None) <=> ReorderDefined
          /\ ReorderDefined =>
                LET d == holt.daysUntilReorder[1]
                IN  /\ d \in 1..Len(holt.out.forecast)
                    /\ holt.out.forecast[d] <= holt.reorderPoint
                    /\ \A j \in 1..(d - 1) : holt.out.forecast[j] > holt.reorderPoint
          /\ (holt.series = ExampleSeries /\ holt.reorderPoint = 5) =>
                /\ holt.daysUntilReorder # None
                /\ holt.daysUntilReorder[1] \in 1..3
    /\ LET r == holtForecast(ExampleSeries, Rat(3, 10), Rat(1, 10), 3)
           d == DaysUntilReorder(r.forecast, r.trend, 5)
       IN  d # None /\ d[1] \in 1..3

\* The endpoint has handled a product with the worked series and reorder point 5.
C16_Witness ==
    /\ holt.pc = "pushed"
    /\ holt.series = ExampleSeries
    /\ holt.reorderPoint = 5
    /\ holt.daysUntilReorder = Some(1)

-----------------------------------------------------------------------------
(* Claims about forecastDemand, checked under SpecDemand *)

\* C17: for every item with positive daily_usage and every positive integer
\* horizon, the ForecastedItem satisfies
\* forecasted_units = base_demand + safety_stock.
C17_UnitsAreBasePlusSafety ==
    fcd.pc = "returned" =>
        \A k \in 1..Len(fcd.out) :
            fcd.out[k].forecasted_units
                = fcd.out[k].base_demand + fcd.out[k].safety_stock

\* C18: for every item with positive daily_usage and every positive integer
\* horizon, base_demand = ceil(daily_usage * horizon) and safety_stock =
\* ceil(base_demand * 0.20), computed from the rounded-up base_demand; for
\* daily_usage 2 and horizon 30 the result is 60, 12, 72.
C18_BaseDemandAndSafetyStock ==
    fcd.pc = "returned" =>
        \A k \in 1..Len(fcd.out) :
            LET it == fcd.out[k]
            IN  /\ it.base_demand
                     = CeilDiv(it.daily_usage.num * fcd.horizonDays, it.daily_usage.den)
                /\ it.safety_stock = CeilDiv(it.base_demand * 2, 10)
                /\ (it.daily_usage = Usage(2, 1) /\ fcd.horizonDays = 30) =>
                      /\ it.base_demand = 60
                      /\ it.safety_stock = 12
                      /\ it.forecasted_units = 72

-----------------------------------------------------------------------------
(* Claims about the Selector's fallback, checked under SpecSelect *)

\* C19: with the ranking capability unavailable, a pool of 10 distinct items
\* all priced 10 and budget 50, the Selector returns exactly the first 5 pool
\* items in pool order, each with quantity 1, for a total of 50; the fallback
\* never returns more items than the budget pays for.
C19_FallbackStopsAtBudget ==
    sel.pc = "returned" =>
        /\ (sel.fundsCrypto > 0) => TotalCost(sel.out) <= sel.fundsCrypto
        /\ (/\ sel.ranking = "unavailable"
            /\ sel.mergedResults = SelPool(10, "flat")
            /\ sel.fundsCrypto = 50) =>
              sel.out = [k \in 1..5 |-> RankItem(ToString(k), 1, 10)]

\* The pool items the claim expects: those of the first 8 whose price (a
\* missing price counted as 0) is <= budget, in pool order, quantity 1.
RECURSIVE ExpectedFallback(_, _, _)
ExpectedFallback(pool, budget, n) ==
    IF n = 0 THEN <<>>
    ELSE LET before == ExpectedFallback(pool, budget, n - 1)
             price  == IF pool[n].price = None THEN 0 ELSE pool[n].price[1]
         IN  IF price <= budget
             THEN Append(before, RankItem(pool[n].asin, 1, price))
             ELSE before

\* C20: when the ranking capability is unavailable, fails or returns no
\* items, the Selector returns exactly those of the first 8 pool items whose
\* unit_price is <= budget, in pool order, each with quantity 1 and the pool's
\* price (a missing price counted as 0); the result depends only on the pool
\* and the budget.
C20_FallbackRule ==
    sel.pc = "returned" =>
        sel.out = ExpectedFallback(sel.mergedResults, sel.fundsCrypto,
                                   IF Len(sel.mergedResults) < 8
                                   THEN Len(sel.mergedResults) ELSE 8)

-----------------------------------------------------------------------------
(* Claims about the web-search fallback inside the chain, checked under Spec *)

\* C21: runExternalSearch never returns an empty list: for every query string
\* and every outcome of the underlying searches it returns at least one result
\* that carries a link, so every unfound query has a fallback result.
C21_FallbackNeverEmpty ==
    \A k \in 1..Len(rawUnfoundSearches) :
        rawUnfoundSearches[k] # None =>
            \E j \in 1..Len(rawUnfoundSearches[k][1]) :
                rawUnfoundSearches[k][1][j].link # <<>>

\* C22: the forecast horizon the recommend entrypoint passes to the Demand
\* Estimator is always an integer within [1, 365]; a forecastHorizon outside
\* that range is clamped to it, neither rejected nor used unchanged.
C22_HorizonWithinRange ==
    \A k \in 1..Len(forecastedItems) : forecastedItems[k].horizon_days \in 1..365

-----------------------------------------------------------------------------
(* Claims about the payment ledger of the frontend, checked under SpecUI *)

LedgerShown == Ledger(ui) # None

\* The approved item list and the balance the ledger starts from.
ApprovedItems == ui.recommendation[1].items
LineTotals(n) == [k \in 1..n |-> ApprovedItems[k].quantity * ApprovedItems[k].unit_price]

C23_LedgerSteps ==
    LedgerShown =>
        LET ledger == Ledger(ui)[1]
            B      == ledger.startBalance
            n      == Len(ApprovedItems)
        IN  /\ B = fundsAmountUsd(ui)
            /\ Len(ledger.paymentSteps) = n
            /\ \A i \in 1..n :
                  /\ ledger.paymentSteps[i].lineTotal
                        = ApprovedItems[i].quantity * ApprovedItems[i].unit_price
                  /\ ledger.paymentSteps[i].balanceAfter = B - SumSeq(LineTotals(i))
            /\ ledger.totalSpent = B - ledger.runningBalance
            /\ ledger.totalSpent = SumSeq(LineTotals(n))

\* the step that makes the ledger appear leaves recommendation and funds alone
C23_LedgerIsReadOnly ==
    (~LedgerShown /\ LedgerShown') =>
        /\ ui'.recommendation = ui.recommendation
        /\ ui'.fundsAmount = ui.fundsAmount
        /\ fundsAmountUsd(ui') = fundsAmountUsd(ui)

\* C23: for an approved item list of length n and starting balance B, the
\* ledger has step 0 with balance B and, for each i in 1..n, a step whose
\* amount is quantity_i * unit_price_i and whose balance is B minus the sum of
\* the first i line totals; total spent equals B minus the final balance,
\* which is the sum of all line totals; building the ledger changes neither
\* the recommendation nor the funds amount.
C23_PaymentLedger == [](C23_LedgerSteps) /\ [][C23_LedgerIsReadOnly]_vars

\* A ledger of two steps, the first for a quantity above 1.
C23_Witness ==
    /\ LedgerShown
    /\ Len(Ledger(ui)[1].paymentSteps) = 2
    /\ ApprovedItems[1].quantity = 3
    /\ Ledger(ui)[1].startBalance = 100

\* C24: a ledger is shown only if Approve was clicked after the currently
\* shown recommendation arrived: approval is set by the Approve click alone,
\* which needs a shown recommendation and changes nothing else; every step
\* that replaces or clears the shown recommendation, and so every start of a
\* new request, leaves the approval cleared.
C24_ApprovalSteps ==
    /\ (~ui.approved /\ ui'.approved) =>
          /\ ui.recommendation # None
          /\ ui' = [ui EXCEPT !.approved = TRUE]
    /\ (ui'.recommendation # ui.recommendation) => ~ui'.approved
    /\ (~ui.loading /\ ui'.loading) => (~ui'.approved /\ ui'.recommendation = None)

C24_LedgerOnlyAfterApproval ==
    /\ [](LedgerShown => (ui.approved /\ ui.recommendation # None /\ ~ui.loading))
    /\ [][C24_ApprovalSteps]_vars

\* The ledger of an approved one-item recommendation is shown, paid by card.
C24_Witness ==
    /\ LedgerShown
    /\ ui.approved
    /\ Len(ApprovedItems) = 1
    /\ ui.fundsSource = "card"
    /\ ui.request[1].fundsCrypto = 50

\* C29: the starting balance of the ledger equals the budget that was sent
\* with the request which produced the approved recommendation, for every
\* interleaving of user edits and exchange-rate arrivals in between.
C29_LedgerStartsAtSentBudget ==
    LedgerShown => Ledger(ui)[1].startBalance = ui.request[1].fundsCrypto

-----------------------------------------------------------------------------
(* Claims about the budget of the chain, checked under Spec *)

\* C25: the Unfound Resolver runs after the Selector has returned and starts
\* from max(0, budget - total cost of the selected items), or from the
\* original budget when the catalog search produced no results at all; the
\* value it starts from never exceeds the request budget.
C25_UnfoundStartsFromLeftover ==
    (Responded /\ Planned /\ Response.status = 200) =>
        /\ Response.budgetForQuantity # None
        /\ Response.budgetForQuantity[1] =
              IF allResults = <<>> THEN req.fundsCrypto
              ELSE Max(0, req.fundsCrypto - TotalCost(Response.items))
        /\ Response.budgetForQuantity[1] <= req.fundsCrypto

\* C28: the budget against which the Selector and the Unfound Resolver
\* allocate is the budget of the request whenever that is a number >= 0; a
\* request with budget 0 gets no selected item with a positive price and no
\* debit, never a larger substitute budget.
C28_ZeroBudgetAllocatesNothing ==
    (Responded /\ Planned /\ Response.status = 200 /\ req.fundsCrypto = 0) =>
        /\ \A k \in 1..Len(Response.items) : Response.items[k].unit_price = 0
        /\ Response.budgetForQuantity = Some(0)
        /\ \A k \in 1..Len(Response.unfound_items) :
              Response.unfound_items[k].line_total = None

\* what runExternalSearch can return for a query
SearchOutcomes(query) ==
    {runExternalSearch(query, amazon, ddg) :
        amazon \in AmazonOutcomeSet, ddg \in DdgOutcomeSet}

\* C26: the web-search fallbacks of the unfound queries may complete in any
\* order, but unfound item i is built from the results of unfound query i and
\* budget is debited in original query order after all searches have
\* completed: the unfound items are the fold, in query order, over the
\* per-query results, whatever the completion order was.
C26_UnfoundItemsInQueryOrder ==
    /\ \A k \in 1..Len(rawUnfoundSearches) :
          rawUnfoundSearches[k] # None =>
              rawUnfoundSearches[k][1] \in SearchOutcomes(unfoundQueries[k])
    /\ (Responded /\ Planned /\ Response.status = 200) =>
          /\ Len(rawUnfoundSearches) = Len(unfoundQueries)
          /\ \A k \in 1..Len(rawUnfoundSearches) : rawUnfoundSearches[k] # None
          /\ Response.unfound_items =
                buildUnfoundItems(unfoundQueries, JoinedSearches(rawUnfoundSearches),
                                  Response.budgetForQuantity[1])
          /\ \A k \in 1..Len(unfoundQueries) :
                Response.unfound_items[k].query = unfoundQueries[k]

\* The search of the second unfound query has completed before that of the
\* first, and the two queries differ.
C26_Witness ==
    /\ pc = "ext_wait"
    /\ Len(unfoundQueries) = 2
    /\ unfoundQueries[1] # unfoundQueries[2]
    /\ rawUnfoundSearches[1] = None
    /\ rawUnfoundSearches[2] # None

-----------------------------------------------------------------------------
(* Claims about the price of an unfound item, checked under SpecUnfound *)

\* The price recoverable from a batch of fallback results: the first of the
\* price field, the snippet and the title of its first result that yields one.
PriceOfFirstResult(batch) ==
    IF batch = <<>> THEN None
    ELSE OrElse(OrElse(parsePriceFromText(batch[1].price),
                       parsePriceFromText(batch[1].snippet)),
                parsePriceFromText(batch[1].title))

\* C27: for each unfound query the unit price comes only from the query's
\* first fallback result, as the first of its price field, its snippet and
\* its title that yields a price; when none yields a price, including when
\* the query has no fallback result, the item has no unit_price and no
\* line_total, its quantity is 1 and the remaining budget is unchanged.
C27_PriceOnlyFromFirstResult ==
    [][BuiIterate =>
         LET k     == bui.i + 1
             price == PriceOfFirstResult(BatchAt(bui.rawSearches, k))
             item  == bui'.items[k]
         IN  /\ item.unit_price = price
             /\ price = None =>
                   /\ item.line_total = None
                   /\ item.quantity = 1
                   /\ bui'.remaining = bui.remaining]_vars

-----------------------------------------------------------------------------
(* Claim about the holiday shortcut, checked under Spec *)

\* C30: a request whose prompt triggers the hardcoded holiday shortcut is
\* answered without any external capability call, and the totalCost of its
\* response (quantity x 499, quantity = floor(budget / 499) clamped to
\* [1, 99]) is at most the budget of the request.
C30_HolidayShortcutWithinBudget ==
    isHolidaySellPrompt(req.prompt) =>
        /\ calls = <<>>
        /\ net = NoCall
        /\ Responded =>
              /\ Response.status = 200
              /\ Response.totalCost <= req.fundsCrypto

====
